---- MODULE Spec2Model ----
(***************************************************************************)
(* A model of the inspector library of src/src/inspect.ts and              *)
(* src/src/strings.ts.  An inspector is a tree of combinators; applying    *)
(* it to a JavaScript value is the evaluator Eval below, which threads     *)
(* the state an application can touch: the heap of the caller's objects    *)
(* (generators are consumed by iteration), the lastIndex of the RegExp     *)
(* objects held by isStringMatching, and the invocation counts of the      *)
(* suppliers wrapped by is() and of the predicates handed to isRefined.    *)
(***************************************************************************)
EXTENDS Integers, Sequences, FiniteSets, TLC

VARIABLES
    family,     \* which group of inspectors and inputs this run draws from
    cur,        \* the inspector the caller has constructed (NoInsp before)
    heap,       \* the caller's objects: id -> object
    lastIndex,  \* RegExp name -> lastIndex of that RegExp object
    calls,      \* supplier or predicate name -> number of times it was invoked
    last,       \* the latest application: its input, result and prior state
    napps,      \* number of applications the caller has made
    nmuts,      \* number of mutations the caller has made
    dirty,      \* the caller has mutated an object since the latest application
    flipped     \* "broken" or "repaired" once an application, after a mutation,
                \* turned the result for the same input to false or to true

vars == <<family, cur, heap, lastIndex, calls, last, napps, nmuts, dirty, flipped>>

(***************************************************************************)
(* JavaScript values.  t is the typeof tag (null has its own tag), k a     *)
(* subkind, n and m numeric payloads, s the text of a string.              *)
(* A number of kind "int" is n * Limb + m with 0 <= m < Limb, so that the  *)
(* 32-bit boundary fits; kind "frac" is that integer plus one half.        *)
(***************************************************************************)
Limb == 2 ^ 16

Val(t, k, n, m, s) == [t |-> t, k |-> k, n |-> n, m |-> m, s |-> s]

Undefined == Val("undefined", "", 0, 0, "")
Null == Val("null", "", 0, 0, "")
True == Val("boolean", "", 1, 0, "")
False == Val("boolean", "", 0, 0, "")
Num(i) == Val("number", "int", i \div Limb, i % Limb, "")
Word(hi, lo) == Val("number", "int", hi, lo, "")
Half(i) == Val("number", "frac", i \div Limb, i % Limb, "")
NaN == Val("number", "nan", 0, 0, "")
PosInf == Val("number", "inf", 0, 0, "")
NegInf == Val("number", "ninf", 0, 0, "")
BigInt(i) == Val("bigint", "", i, 0, "")
Sym == Val("symbol", "", 0, 0, "")
Str(s) == Val("string", "", 0, 0, s)
Fn == Val("function", "fn", 0, 0, "")
Class == Val("function", "class", 0, 0, "")
Ref(id) == Val("object", "ref", id, 0, "")
Proto(cls) == Val("object", cls, 0, 0, "")
ObjectPrototype == Proto("Object")

IsRef(x) == x.t = "object" /\ x.k = "ref"

(***************************************************************************)
(* Heap objects.  cls is the class the object was made by ("Object" for a  *)
(* literal, "NullProto" for Object.create(null)), props its own enumerable *)
(* properties in insertion order, elems the elements of an array or Set,   *)
(* or the values a generator has yet to yield.                             *)
(***************************************************************************)
Obj(cls, props, elems) == [cls |-> cls, props |-> props, elems |-> elems]
P(key, v) == [k |-> key, v |-> v]

IterKey == "@@iterator"

\* The characters of the strings the model uses.
Chars(s) ==
    CASE s = "" -> <<>>
      [] s = "a" -> <<"a">>
      [] s = "b" -> <<"b">>
      [] s = "ab" -> <<"a", "b">>
      [] s = "ba" -> <<"b", "a">>
      [] s = "aa" -> <<"a", "a">>
      [] s \in {"0", "r", "o", "t", "c", "i", "u", "l"} -> <<s>>
      [] s = "root" -> <<"r", "o", "o", "t">>
      [] s = "circular" -> <<"c", "i", "r", "c", "u", "l", "a", "r">>

ObjectProtoKeys ==
    {"constructor", "toString", "valueOf", "hasOwnProperty", "isPrototypeOf",
     "propertyIsEnumerable", "toLocaleString"}

\* The index keys "0", "1", ... of an array or String object.
IndexKeys(o) ==
    IF o.cls \in {"Array", "String"} THEN [j \in 1..Len(o.elems) |-> ToString(j - 1)]
    ELSE <<>>
IsIndexKey(o, key) == \E j \in 1..Len(IndexKeys(o)) : IndexKeys(o)[j] = key

HasOwn(o, key) == \E j \in 1..Len(o.props) : o.props[j].k = key

OwnGet(o, key) ==
    o.props[CHOOSE j \in 1..Len(o.props) :
                /\ o.props[j].k = key
                /\ \A l \in (j + 1)..Len(o.props) : o.props[l].k # key].v

\* What the class of an object contributes to a property read.
ClassGet(o, key) ==
    CASE IsIndexKey(o, key) ->
            o.elems[CHOOSE j \in 1..Len(o.elems) : IndexKeys(o)[j] = key]
      [] o.cls \in {"Array", "String"} /\ key = "length" -> Num(Len(o.elems))
      [] o.cls \in {"Array", "String", "Set", "Map", "Generator"} /\ key = IterKey -> Fn
      [] o.cls \in {"Set", "Map"} /\ key = "size" -> Num(Len(o.elems))
      [] o.cls = "Generator" /\ key = "next" -> Fn
      [] o.cls = "Promise" /\ key = "then" -> Fn
      [] o.cls # "NullProto" /\ key \in ObjectProtoKeys -> Fn
      [] o.cls # "NullProto" /\ key = "__proto__" -> Proto(o.cls)
      [] OTHER -> Undefined

\* x[key] for a value x that is neither undefined nor null.
Get(h, x, key) ==
    CASE IsRef(x) ->
            IF HasOwn(h[x.n], key) THEN OwnGet(h[x.n], key) ELSE ClassGet(h[x.n], key)
      [] x.t = "string" /\ key = "length" -> Num(Len(Chars(x.s)))
      [] x.t = "string" /\ key = IterKey -> Fn
      [] x.t = "function" /\ key = "length" -> Num(0)
      [] key \in ObjectProtoKeys -> Fn
      [] OTHER -> Undefined

Truthy(x) ==
    CASE x.t \in {"undefined", "null"} -> FALSE
      [] x.t = "boolean" -> x.n = 1
      [] x.t = "number" -> ~(x.k = "nan" \/ (x.k = "int" /\ x.n = 0 /\ x.m = 0))
      [] x.t = "bigint" -> x.n # 0
      [] x.t = "string" -> x.s # ""
      [] OTHER -> TRUE

NumberIsInteger(x) == x.t = "number" /\ x.k = "int"

\* a <= b on numbers, as the IEEE comparison gives it.
NumLE(a, b) ==
    CASE a.k = "nan" \/ b.k = "nan" -> FALSE
      [] a.k = "ninf" \/ b.k = "inf" -> TRUE
      [] a.k = "inf" \/ b.k = "ninf" -> FALSE
      [] a.n # b.n -> a.n < b.n
      [] a.m # b.m -> a.m < b.m
      [] OTHER -> ~(a.k = "frac" /\ b.k = "int")

(***************************************************************************)
(* Conversions the operators of the language make.                         *)
(***************************************************************************)
RECURSIVE ToPrimitiveThrows(_, _, _)
\* ToPrimitive(x) throws: an object without a prototype has neither valueOf
\* nor toString; an array joins its elements, converting each to a string,
\* which throws on a symbol and on an element that itself cannot be converted
\* (an array met again on the way joins to the empty string).
ToPrimitiveThrows(h, x, fuel) ==
    IF ~IsRef(x) THEN FALSE
    ELSE LET o == h[x.n] IN
         CASE o.cls = "NullProto" -> TRUE
           [] o.cls = "Object" /\ (HasOwn(o, "valueOf") \/ HasOwn(o, "toString")) ->
                \* own non-callable valueOf and toString leave no conversion
                /\ Get(h, x, "valueOf").t # "function"
                /\ Get(h, x, "toString").t # "function"
           [] o.cls = "Array" ->
                \E j \in 1..Len(o.elems) :
                    \/ o.elems[j].t = "symbol"
                    \/ /\ IsRef(o.elems[j])
                       /\ fuel > 0
                       /\ ToPrimitiveThrows(h, o.elems[j], fuel - 1)
           [] OTHER -> FALSE

\* ToNumeric(x) for the operand of >>> throws a TypeError: a symbol cannot be
\* converted to a number, a bigint cannot be mixed with the number 0.
ToNumericThrows(h, x) ==
    \/ x.t \in {"symbol", "bigint"}
    \/ ToPrimitiveThrows(h, x, Cardinality(DOMAIN h))

UInt32Bits == 32

\* x >>> 0 for a number x: NaN and the infinities give 0, a fraction is
\* truncated towards zero, and the integer is taken modulo 2^32.
ToUint32(x) ==
    CASE x.k \in {"nan", "inf", "ninf"} -> Word(0, 0)
      [] x.k = "frac" /\ x.n < 0 ->
            IF x.m + 1 = Limb THEN Word((x.n + 1) % (2 ^ (UInt32Bits - 16)), 0)
            ELSE Word(x.n % (2 ^ (UInt32Bits - 16)), x.m + 1)
      [] OTHER -> Word(x.n % (2 ^ (UInt32Bits - 16)), x.m)

\* The outcome of a call: "true", "false", or the error it throws
\* ("TypeError", "Error" from a supplier, "RangeError" on stack exhaustion).
B(b) == IF b THEN "true" ELSE "false"
Throws(r) == r \notin {"true", "false"}

(***************************************************************************)
(* Basic inspectors (src/src/inspect.ts, "Basic Inspectors").              *)
(***************************************************************************)
\* isUndefined, comparing loosely (x == undefined)
isUndefinedLoose(x) == x.t \in {"undefined", "null"}

isUndefined(x) == x = Undefined
isNull(x) == x = Null
isNullish(x) == x.t \in {"undefined", "null"}
isBoolean(x) == x = True \/ x = False
isNumber(x) == x.t = "number"
isInt(x) == NumberIsInteger(x)
\* "true" or "false", or "TypeError" when the shift cannot convert its operand
isUInt32(h, x) ==
    IF ToNumericThrows(h, x) THEN "TypeError"
    ELSE B(x.t = "number" /\ ToUint32(x) = x)
\* isUInt8 without the integer test
isUInt8Loose(x) == isNumber(x) /\ NumLE(Num(0), x) /\ NumLE(x, Num(255))

isUInt8(x) == NumberIsInteger(x) /\ NumLE(Num(0), x) /\ NumLE(x, Num(255))
isBigInt(x) == x.t = "bigint"
isString(h, x) == x.t = "string" \/ (IsRef(x) /\ h[x.n].cls = "String")
isArray(h, x) == IsRef(x) /\ h[x.n].cls = "Array"
isFunction(x) == x.t = "function"
isObject(x) == x # Null /\ x.t = "object"
ProtoOf(h, x) ==
    CASE IsRef(x) /\ h[x.n].cls = "NullProto" -> Null
      [] IsRef(x) -> Proto(h[x.n].cls)
      [] x = ObjectPrototype -> Null
      [] OTHER -> ObjectPrototype
isStruct(h, x) == isObject(x) /\ ProtoOf(h, x) \in {ObjectPrototype, Null}
\* isRecord accepting every object
isRecordAnyObject(h, x) == isObject(x)

isRecord(h, x) == isStruct(h, x)
isPlainObject(h, x) == isObject(x) /\ Get(h, x, "__proto__") = ObjectPrototype
\* isInstance without the object test
isInstanceNoObjectTest(h, x) == ~isStruct(h, x)

isInstance(h, x) == isObject(x) /\ ~isStruct(h, x)
isIterable(h, x) == ~isNullish(x) /\ Get(h, x, IterKey).t = "function"
isIterator(h, x) == ~isNullish(x) /\ Get(h, x, "next").t = "function"
isSet(h, x) == IsRef(x) /\ h[x.n].cls = "Set"
isMap(h, x) == IsRef(x) /\ h[x.n].cls = "Map"
isPromise(h, x) == IsRef(x) /\ h[x.n].cls = "Promise"
\* isArrayLike asking for a length that is not negative
isArrayLikeNonNegative(h, x) ==
    IF ~Truthy(x) THEN FALSE
    ELSE IF isArray(h, x) THEN TRUE
    ELSE IF ~NumberIsInteger(Get(h, x, "length")) THEN FALSE
    ELSE NumLE(Num(0), Get(h, x, "length"))

\* isArrayLike asking for an object
isArrayLikeObjectsOnly(h, x) ==
    IF ~isObject(x) THEN FALSE
    ELSE IF isArray(h, x) THEN TRUE
    ELSE IF ~NumberIsInteger(Get(h, x, "length")) THEN FALSE
    ELSE TRUE

isArrayLike(h, x) ==
    IF ~Truthy(x) THEN FALSE
    ELSE IF isArray(h, x) THEN TRUE
    ELSE IF ~NumberIsInteger(Get(h, x, "length")) THEN FALSE
    ELSE TRUE
isPromiseLike(h, x) ==
    IF ~Truthy(x) THEN FALSE
    ELSE IF isPromise(h, x) THEN TRUE
    ELSE IF Get(h, x, "then").t # "function" THEN FALSE
    ELSE TRUE
isNumberBetween(min, max, x) == isNumber(x) /\ NumLE(min, x) /\ NumLE(x, max)
isNonEmptyArray(h, x) == isArray(h, x) /\ Len(h[x.n].elems) > 0

(***************************************************************************)
(* Inspectors as the caller builds them.  op names the library function    *)
(* that made the inspector, args the inspectors it wraps, shape the        *)
(* entries of a shape object in Object.entries order, name the supplier,   *)
(* pattern or hand-written function it holds, vals the plain values it     *)
(* was given, preds the predicates of isRefined.                           *)
(***************************************************************************)
Mk(op, args, shape, name, vals, preds) ==
    [op |-> op, args |-> args, shape |-> shape, name |-> name, vals |-> vals,
     preds |-> preds]
Prim(op) == Mk(op, <<>>, <<>>, "", <<>>, <<>>)
Wrap(op, args) == Mk(op, args, <<>>, "", <<>>, <<>>)
E(key, i) == [k |-> key, i |-> i]

isAny == Prim("isAny")
isNever == Prim("isNever")
\* a function the caller wrote by hand, such as x => false
Custom(name) == Mk("custom", <<>>, <<>>, name, <<>>, <<>>)
\* a member of Object.prototype, reached through a shape object
Builtin(name) == Mk("builtin", <<>>, <<>>, name, <<>>, <<>>)
NotCallable == Prim("notCallable")

is(lazy) == Mk("is", <<>>, <<>>, lazy, <<>>, <<>>)
isOptional(isT) == Wrap("isOptional", <<isT>>)
isNullable(isT) == Wrap("isNullable", <<isT>>)
isNot(isT) == Wrap("isNot", <<isT>>)
isExact(value) == Mk("isExact", <<>>, <<>>, "", <<value>>, <<>>)
isInstanceOf(type) == Mk("isInstanceOf", <<>>, <<>>, type, <<>>, <<>>)
isIterableOf(isT) == Wrap("isIterableOf", <<isT>>)
isArrayOf(isT) == Wrap("isArrayOf", <<isT>>)
isSetOf(isT) == Wrap("isSetOf", <<isT>>)
isMapOf(isK, isV) == Wrap("isMapOf", <<isK, isV>>)
isRecordOf(isK, isV) == Wrap("isRecordOf", <<isK, isV>>)
isAnyOf(inspectors) == Wrap("isAnyOf", inspectors)
isAllOf(inspectors) == Wrap("isAllOf", inspectors)
isTupleOf(inspectors) == Wrap("isTupleOf", inspectors)
isObjectOf(type) == Mk("isObjectOf", <<>>, type, "", <<>>, <<>>)
isPartialOf(type) == Mk("isPartialOf", <<>>, type, "", <<>>, <<>>)
isNumberBetweenOf(min, max) == Mk("isNumberBetween", <<>>, <<>>, "", <<min, max>>, <<>>)
isNonEmptyArrayOf(isT) == Wrap("isNonEmptyArrayOf", <<isT>>)
isRefined(isT, predicates) == Mk("isRefined", <<isT>>, <<>>, "", <<>>, predicates)
isStringMatching(pattern) == Mk("isStringMatching", <<>>, <<>>, pattern, <<>>, <<>>)

(***************************************************************************)
(* The suppliers the caller hands to is(): each either throws or returns   *)
(* an inspector, which may refer back to is() of a supplier by name.       *)
(***************************************************************************)
SupplierNames ==
    {"sString", "sThrow", "sTree", "sOuroboros", "sNever", "sAny", "sFalse", "sTrue"}

SupplierThrows(lazy) == lazy = "sThrow"

SupplierBody(lazy) ==
    CASE lazy = "sString" -> Prim("isString")
      [] lazy = "sTree" ->
            isObjectOf(<<E("value", Prim("isString")),
                         E("children", isArrayOf(is("sTree")))>>)
      [] lazy = "sOuroboros" ->
            isObjectOf(<<E("name", Prim("isString")), E("self", is("sOuroboros"))>>)
      [] lazy = "sNever" -> isNever
      [] lazy = "sAny" -> isAny
      [] lazy = "sFalse" -> Custom("constFalse")
      [] lazy = "sTrue" -> Custom("constTrue")

(***************************************************************************)
(* RegExp objects: a literal text, optionally anchored, with the g and y   *)
(* flags.  RegExpTest is RegExp.prototype.test: with g or y the search     *)
(* starts at lastIndex and leaves the end of the match (or 0) there.       *)
(***************************************************************************)
PatternNames == {"/a/", "/a/g", "/a/y", "/^a$/"}

Pattern(name) ==
    CASE name = "/a/" -> [lit |-> <<"a">>, g |-> FALSE, y |-> FALSE, bol |-> FALSE, eol |-> FALSE]
      [] name = "/a/g" -> [lit |-> <<"a">>, g |-> TRUE, y |-> FALSE, bol |-> FALSE, eol |-> FALSE]
      [] name = "/a/y" -> [lit |-> <<"a">>, g |-> FALSE, y |-> TRUE, bol |-> FALSE, eol |-> FALSE]
      [] name = "/^a$/" -> [lit |-> <<"a">>, g |-> FALSE, y |-> FALSE, bol |-> TRUE, eol |-> TRUE]

\* the pattern matches the characters cs at offset p (0-based)
MatchAt(pat, cs, p) ==
    /\ p + Len(pat.lit) <= Len(cs)
    /\ SubSeq(cs, p + 1, p + Len(pat.lit)) = pat.lit
    /\ (pat.bol => p = 0)
    /\ (pat.eol => p + Len(pat.lit) = Len(cs))

RegExpTest(pat, li, cs) ==
    LET from == IF pat.g \/ pat.y THEN li ELSE 0
        hits == {p \in from..Len(cs) : MatchAt(pat, cs, p) /\ (pat.y => p = from)}
        first == CHOOSE p \in hits : \A q \in hits : p <= q
    IN  IF from > Len(cs) THEN [ok |-> FALSE, li |-> 0]
        ELSE IF hits = {} THEN [ok |-> FALSE, li |-> IF pat.g \/ pat.y THEN 0 ELSE li]
        ELSE [ok |-> TRUE,
              li |-> IF pat.g \/ pat.y THEN first + Len(pat.lit) ELSE li]

\* the text of a value isString accepts: a string or a String object
StringText(h, x) ==
    IF x.t = "string" THEN Chars(x.s)
    ELSE [j \in 1..Len(h[x.n].elems) |-> h[x.n].elems[j].s]

\* the predicates the caller hands to isRefined
PredicateNames == {"positive", "never", "always"}

Predicate(name, x) ==
    CASE name = "positive" -> x.t = "number" /\ ~NumLE(x, Num(0)) /\ x.k # "nan"
      [] name = "never" -> FALSE
      [] OTHER -> TRUE

(***************************************************************************)
(* Applying an inspector.  st is the state a call can touch; d is the      *)
(* depth of the call stack at the call, and a call deeper than StackLimit  *)
(* ends in the host's RangeError.  Every operator returns the outcome r    *)
(* and the state st the call leaves behind.                                *)
(***************************************************************************)
StackLimit == 16

Ret(r, st) == [r |-> r, st |-> st]

\* The basic inspectors by name.
EvalPrim(op, h, x) ==
    CASE op = "isAny" -> "true"
      [] op = "isNever" -> "false"
      [] op = "isUndefined" -> B(isUndefined(x))
      [] op = "isNull" -> B(isNull(x))
      [] op = "isNullish" -> B(isNullish(x))
      [] op = "isBoolean" -> B(isBoolean(x))
      [] op = "isNumber" -> B(isNumber(x))
      [] op = "isInt" -> B(isInt(x))
      [] op = "isUInt32" -> isUInt32(h, x)
      [] op = "isUInt8" -> B(isUInt8(x))
      [] op = "isBigInt" -> B(isBigInt(x))
      [] op = "isString" -> B(isString(h, x))
      [] op = "isArray" -> B(isArray(h, x))
      [] op = "isFunction" -> B(isFunction(x))
      [] op = "isObject" -> B(isObject(x))
      [] op = "isStruct" -> B(isStruct(h, x))
      [] op = "isRecord" -> B(isRecord(h, x))
      [] op = "isPlainObject" -> B(isPlainObject(h, x))
      [] op = "isInstance" -> B(isInstance(h, x))
      [] op = "isIterable" -> B(isIterable(h, x))
      [] op = "isIterator" -> B(isIterator(h, x))
      [] op = "isSet" -> B(isSet(h, x))
      [] op = "isMap" -> B(isMap(h, x))
      [] op = "isPromise" -> B(isPromise(h, x))
      [] op = "isArrayLike" -> B(isArrayLike(h, x))
      [] op = "isPromiseLike" -> B(isPromiseLike(h, x))
      [] op = "isNonEmptyArray" -> B(isNonEmptyArray(h, x))

PrimOps ==
    {"isAny", "isNever", "isUndefined", "isNull", "isNullish", "isBoolean", "isNumber",
     "isInt", "isUInt32", "isUInt8", "isBigInt", "isString", "isArray", "isFunction",
     "isObject", "isStruct", "isRecord", "isPlainObject", "isInstance", "isIterable",
     "isIterator", "isSet", "isMap", "isPromise", "isArrayLike", "isPromiseLike",
     "isNonEmptyArray"}

\* A hand-written inspector.
EvalCustom(name, x) ==
    CASE name = "constFalse" -> "false"
      [] name = "constTrue" -> "true"
      [] name = "strOnly" -> B(x.t = "string")

\* A member of Object.prototype called as isV(v), that is with no receiver:
\* Object(v) and toString give a truthy value, isPrototypeOf gives false for
\* a v that is no object, and the others convert the missing receiver to an
\* object, which throws.
EvalBuiltin(name, x) ==
    CASE name \in {"constructor", "toString"} -> "true"
      [] name = "isPrototypeOf" /\ x.t \notin {"object", "function"} -> "false"
      [] OTHER -> "TypeError"

\* x === value
StrictEquals(x, value) == x = value /\ x.k # "nan"

\* key in type, and type[key], for a shape object written as a literal
InShape(type, key) ==
    \/ \E j \in 1..Len(type) : type[j].k = key
    \/ key \in ObjectProtoKeys
    \/ key = "__proto__"
ShapeGet(type, key) ==
    IF \E j \in 1..Len(type) : type[j].k = key
    THEN type[CHOOSE j \in 1..Len(type) : type[j].k = key].i
    ELSE IF key \in ObjectProtoKeys THEN Builtin(key)
    ELSE NotCallable

\* the keys for (const key in x) visits: index keys, then own string keys
ForInKeys(h, x) ==
    IF ~IsRef(x) THEN <<>>
    ELSE LET o == h[x.n]
             own == SelectSeq(o.props, LAMBDA p : p.k # IterKey)
         IN  IndexKeys(o) \o [j \in 1..Len(own) |-> own[j].k]

\* Object.entries(x) as fresh arrays [key, value], allocated above the heap
EntryArrays(h, x) ==
    LET o == h[x.n]
        own == SelectSeq(o.props, LAMBDA p : p.k # IterKey)
    IN  [j \in 1..Len(own) |-> Obj("Array", <<>>, <<Str(own[j].k), own[j].v>>)]
\* the entries of a Map as fresh arrays [key, value]
MapEntryArrays(o) ==
    [j \in 1..(Len(o.elems) \div 2) |->
        Obj("Array", <<>>, <<o.elems[2 * j - 1], o.elems[2 * j]>>)]
MapKeys(o) == [j \in 1..(Len(o.elems) \div 2) |-> o.elems[2 * j - 1]]
MapValues(o) == [j \in 1..(Len(o.elems) \div 2) |-> o.elems[2 * j]]

Top(h) == IF DOMAIN h = {} THEN 0 ELSE CHOOSE n \in DOMAIN h : \A l \in DOMAIN h : l <= n
\* the heap with the fresh objects objs added, and the references to them
Alloc(h, objs) ==
    [id \in DOMAIN h \cup ((Top(h) + 1)..(Top(h) + Len(objs))) |->
        IF id \in DOMAIN h THEN h[id] ELSE objs[id - Top(h)]]
FreshRefs(h, objs) == [j \in 1..Len(objs) |-> Ref(Top(h) + j)]
\* the fresh objects are garbage once the call returns
Collect(ret, ids) == [ret EXCEPT !.st.heap = [id \in ids |-> ret.st.heap[id]]]

RECURSIVE Eval(_, _, _, _)
RECURSIVE ForOfSeq(_, _, _, _)
RECURSIVE ForOfGen(_, _, _, _)
RECURSIVE Some(_, _, _, _)
RECURSIVE Every(_, _, _, _)
RECURSIVE TupleLoop(_, _, _, _, _)
RECURSIVE ObjectLoop(_, _, _, _)
RECURSIVE PartialLoop(_, _, _, _, _)
RECURSIVE EveryPredicate(_, _, _)
RECURSIVE SomeSwallowing(_, _, _, _)
RECURSIVE SomeVacuous(_, _, _, _)
RECURSIVE SomeEager(_, _, _, _)

\* for (const v of seq) if (!isT(v)) return false; return true;
ForOfSeq(isT, seq, st, d) ==
    IF seq = <<>> THEN Ret("true", st)
    ELSE LET r == Eval(isT, Head(seq), st, d + 1)
         IN  IF r.r = "true" THEN ForOfSeq(isT, Tail(seq), r.st, d) ELSE r

\* the same loop over a generator object: each step takes the next value out
\* of the generator, and leaving the loop early closes the generator
ForOfGen(isT, g, st, d) ==
    LET rest == st.heap[g].elems
    IN  IF rest = <<>> THEN Ret("true", st)
        ELSE LET r == Eval(isT, Head(rest), [st EXCEPT !.heap[g].elems = Tail(rest)], d + 1)
             IN  IF r.r = "true" THEN ForOfGen(isT, g, r.st, d)
                 ELSE Ret(r.r, [r.st EXCEPT !.heap[g].elems = <<>>])

\* for (const v of x) ... for an x that isIterable accepts
ForOf(isT, x, st, d) ==
    LET h == st.heap
    IN  CASE x.t = "string" ->
                ForOfSeq(isT, [j \in 1..Len(Chars(x.s)) |-> Str(Chars(x.s)[j])], st, d)
          [] IsRef(x) /\ HasOwn(h[x.n], IterKey) ->
                \* the caller's [Symbol.iterator]() returns no iterator
                Ret("TypeError", st)
          [] IsRef(x) /\ h[x.n].cls = "Generator" -> ForOfGen(isT, x.n, st, d)
          [] IsRef(x) /\ h[x.n].cls = "Map" ->
                LET objs == MapEntryArrays(h[x.n])
                IN  Collect(ForOfSeq(isT, FreshRefs(h, objs),
                                     [st EXCEPT !.heap = Alloc(h, objs)], d),
                            DOMAIN h)
          [] OTHER -> ForOfSeq(isT, h[x.n].elems, st, d)

\* the body of isIterableOf(isT) past the isIterable test, over the values
\* an iterator produces
IterableOfSeq(isT, seq, st, d) ==
    IF isT = isNever THEN Ret("false", st)
    ELSE IF isT = isAny THEN Ret("true", st)
    ELSE ForOfSeq(isT, seq, st, d)

\* CallIterableOf, without the tests for isNever and isAny
CallIterableOfNoOverride(isT, x, st, d) ==
    IF ~isIterable(st.heap, x) THEN Ret("false", st)
    ELSE ForOf(isT, x, st, d)

CallIterableOf(isT, x, st, d) ==
    IF ~isIterable(st.heap, x) THEN Ret("false", st)
    ELSE IF isT = isNever THEN Ret("false", st)
    ELSE IF isT = isAny THEN Ret("true", st)
    ELSE ForOf(isT, x, st, d)

\* CallArrayOf, with the elements left unchecked
CallArrayOfShallow(isT, x, st, d) == Ret(B(isArray(st.heap, x)), st)

CallArrayOf(isT, x, st, d) ==
    IF ~isArray(st.heap, x) THEN Ret("false", st)
    ELSE Eval(isIterableOf(isT), x, st, d + 1)

CallSetOf(isT, x, st, d) ==
    IF ~isSet(st.heap, x) THEN Ret("false", st)
    ELSE Eval(isIterableOf(isT), x, st, d + 1)

\* CallMapOf looking at the keys only
CallMapOfKeysOnly(isK, isV, x, st, d) ==
    IF ~isMap(st.heap, x) THEN Ret("false", st)
    ELSE IterableOfSeq(isK, MapKeys(st.heap[x.n]), st, d + 1)

CallMapOf(isK, isV, x, st, d) ==
    IF ~isMap(st.heap, x) THEN Ret("false", st)
    ELSE LET k == IterableOfSeq(isK, MapKeys(st.heap[x.n]), st, d + 1)
         IN  IF k.r # "true" THEN k
             ELSE IterableOfSeq(isV, MapValues(k.st.heap[x.n]), k.st, d + 1)

\* CallRecordOf written the way isMapOf is: the keys and the values are
\* handed to isIterableOf separately
CallRecordOfLikeMap(isK, isV, x, st, d) ==
    IF ~isRecord(st.heap, x) THEN Ret("false", st)
    ELSE LET own == SelectSeq(st.heap[x.n].props, LAMBDA p : p.k # IterKey)
             k == IterableOfSeq(isK, [j \in 1..Len(own) |-> Str(own[j].k)], st, d + 1)
         IN  IF k.r # "true" THEN k
             ELSE IterableOfSeq(isV, [j \in 1..Len(own) |-> own[j].v], k.st, d + 1)

CallRecordOf(isK, isV, x, st, d) ==
    IF ~isRecord(st.heap, x) THEN Ret("false", st)
    ELSE LET h == st.heap
             objs == EntryArrays(h, x)
             all == Append(objs, Obj("Array", <<>>, FreshRefs(h, objs)))
         IN  Collect(Eval(isIterableOf(isTupleOf(<<isK, isV>>)), Ref(Top(h) + Len(all)),
                          [st EXCEPT !.heap = Alloc(h, all)], d + 1),
                     DOMAIN h)

\* Some, accepting when there is no inspector
SomeVacuous(inspectors, x, st, d) ==
    IF inspectors = <<>> THEN Ret("true", st)
    ELSE LET r == Eval(Head(inspectors), x, st, d + 1)
         IN  IF r.r = "false" /\ Tail(inspectors) # <<>>
             THEN SomeVacuous(Tail(inspectors), x, r.st, d) ELSE r

\* Some, applying the inspectors after the one that decides as well
SomeEager(inspectors, x, st, d) ==
    IF inspectors = <<>> THEN Ret("false", st)
    ELSE LET r == Eval(Head(inspectors), x, st, d + 1)
             rest == SomeEager(Tail(inspectors), x, r.st, d)
         IN  IF r.r = "false" THEN rest ELSE Ret(r.r, rest.st)

\* Some, with a failure of an inspector taken for a rejection
SomeSwallowing(inspectors, x, st, d) ==
    IF inspectors = <<>> THEN Ret("false", st)
    ELSE LET r == Eval(Head(inspectors), x, st, d + 1)
         IN  IF r.r # "true" THEN SomeSwallowing(Tail(inspectors), x, r.st, d) ELSE r

\* inspectors.some(isT => isT(x))
Some(inspectors, x, st, d) ==
    IF inspectors = <<>> THEN Ret("false", st)
    ELSE LET r == Eval(Head(inspectors), x, st, d + 1)
         IN  IF r.r = "false" THEN Some(Tail(inspectors), x, r.st, d) ELSE r

\* inspectors.every(isT => isT(x))
Every(inspectors, x, st, d) ==
    IF inspectors = <<>> THEN Ret("true", st)
    ELSE LET r == Eval(Head(inspectors), x, st, d + 1)
         IN  IF r.r = "true" THEN Every(Tail(inspectors), x, r.st, d) ELSE r

\* CallTupleOf, accepting only arrays with as many elements as inspectors
CallTupleOfExactLength(inspectors, x, st, d) ==
    IF ~isArray(st.heap, x) THEN Ret("false", st)
    ELSE IF Len(st.heap[x.n].elems) # Len(inspectors) THEN Ret("false", st)
    ELSE TupleLoop(inspectors, 0, x, st, d)

\* for (let i = 0; i < inspectors.length; ++i) if (!inspectors[i](x[i])) return false;
TupleLoop(inspectors, i, x, st, d) ==
    IF i >= Len(inspectors) THEN Ret("true", st)
    ELSE LET r == Eval(inspectors[i + 1], Get(st.heap, x, ToString(i)), st, d + 1)
         IN  IF r.r = "true" THEN TupleLoop(inspectors, i + 1, x, r.st, d) ELSE r

CallTupleOf(inspectors, x, st, d) ==
    IF ~isArray(st.heap, x) THEN Ret("false", st)
    ELSE TupleLoop(inspectors, 0, x, st, d)

\* for (const [key, isV] of Object.entries(type)) if (!isV(x[key])) return false;
ObjectLoop(entries, x, st, d) ==
    IF entries = <<>> THEN Ret("true", st)
    ELSE LET r == Eval(Head(entries).i, Get(st.heap, x, Head(entries).k), st, d + 1)
         IN  IF r.r = "true" THEN ObjectLoop(Tail(entries), x, r.st, d) ELSE r

\* CallObjectOf, checking only the keys of the shape that x has itself
CallObjectOfOwnKeysOnly(type, x, st, d) ==
    IF ~isObject(x) THEN Ret("false", st)
    ELSE ObjectLoop(SelectSeq(type, LAMBDA e : IsRef(x) /\ HasOwn(st.heap[x.n], e.k)),
                    x, st, d)

\* CallObjectOf, rejecting an object that has a key the shape lacks
CallObjectOfClosed(type, x, st, d) ==
    IF ~isObject(x) THEN Ret("false", st)
    ELSE IF IsRef(x) /\ \E j \in 1..Len(st.heap[x.n].props) :
                            ~\E l \in 1..Len(type) : type[l].k = st.heap[x.n].props[j].k
    THEN Ret("false", st)
    ELSE ObjectLoop(type, x, st, d)

\* CallObjectOf, answering from the latest application when the input is
\* the one inspected then
CallObjectOfCached(type, x, st, d) ==
    IF last.r \in {"true", "false"} /\ last.x = x /\ cur = isObjectOf(type)
    THEN Ret(last.r, st)
    ELSE IF ~isObject(x) THEN Ret("false", st)
    ELSE ObjectLoop(type, x, st, d)

\* CallObjectOf, with a failure inside the loop turned into a rejection
CallObjectOfCatching(type, x, st, d) ==
    IF ~isObject(x) THEN Ret("false", st)
    ELSE LET r == ObjectLoop(type, x, st, d)
         IN  IF Throws(r.r) THEN Ret("false", r.st) ELSE r

CallObjectOf(type, x, st, d) ==
    IF ~isObject(x) THEN Ret("false", st)
    ELSE ObjectLoop(type, x, st, d)

\* for (const key in x) if (key in type) { if (!type[key](x[key])) return false; }
PartialLoop(type, keys, x, st, d) ==
    IF keys = <<>> THEN Ret("true", st)
    ELSE IF ~InShape(type, Head(keys)) THEN PartialLoop(type, Tail(keys), x, st, d)
    ELSE LET r == Eval(ShapeGet(type, Head(keys)), Get(st.heap, x, Head(keys)), st, d + 1)
         IN  IF r.r = "true" THEN PartialLoop(type, Tail(keys), x, r.st, d) ELSE r

CallPartialOf(type, x, st, d) ==
    IF ~isObject(x) THEN Ret("false", st)
    ELSE PartialLoop(type, ForInKeys(st.heap, x), x, st, d)

\* EveryPredicate, invoking every predicate whatever the earlier ones return
EveryPredicateEager(predicates, x, st) ==
    Ret(B(\A j \in 1..Len(predicates) : Predicate(predicates[j], x)),
        [st EXCEPT !.calls = [l \in DOMAIN @ |->
            IF \E j \in 1..Len(predicates) : predicates[j] = l THEN @[l] + 1 ELSE @[l]]])

\* predicates.every(cond => cond(x)); calls counts the invocations of cond
EveryPredicate(predicates, x, st) ==
    IF predicates = <<>> THEN Ret("true", st)
    ELSE LET invoked == [st EXCEPT !.calls[Head(predicates)] = @ + 1]
         IN  IF Predicate(Head(predicates), x)
             THEN EveryPredicate(Tail(predicates), x, invoked)
             ELSE Ret("false", invoked)

CallRefined(isT, predicates, x, st, d) ==
    LET r == Eval(isT, x, st, d + 1)
    IN  IF r.r # "true" THEN r ELSE EveryPredicate(predicates, x, r.st)

CallNonEmptyArrayOf(isT, x, st, d) ==
    LET r == Eval(isArrayOf(isT), x, st, d + 1)
    IN  IF r.r # "true" THEN r ELSE Ret(B(Len(r.st.heap[x.n].elems) > 0), r.st)

\* isString(x) && pattern.test(x)
CallStringMatching(pattern, x, st) ==
    IF ~isString(st.heap, x) THEN Ret("false", st)
    ELSE LET t == RegExpTest(Pattern(pattern), st.lastIndex[pattern], StringText(st.heap, x))
         IN  Ret(B(t.ok), [st EXCEPT !.lastIndex[pattern] = t.li])

\* CallIs, with the supplier's result kept from the first application on
CallIsMemoized(lazy, x, st, d) ==
    LET invoked == IF st.calls[lazy] > 0 THEN st ELSE [st EXCEPT !.calls[lazy] = @ + 1]
    IN  IF d + 1 > StackLimit THEN Ret("RangeError", st)
        ELSE IF SupplierThrows(lazy) THEN Ret("Error", invoked)
        ELSE Eval(SupplierBody(lazy), x, invoked, d + 1)

\* const isT = lazy(); return isT(x);
CallIs(lazy, x, st, d) ==
    LET invoked == [st EXCEPT !.calls[lazy] = @ + 1]
    IN  IF d + 1 > StackLimit THEN Ret("RangeError", st)
        ELSE IF SupplierThrows(lazy) THEN Ret("Error", invoked)
        ELSE Eval(SupplierBody(lazy), x, invoked, d + 1)

Eval(i, x, st, d) ==
    IF d > StackLimit THEN Ret("RangeError", st)
    ELSE CASE i.op \in PrimOps -> Ret(EvalPrim(i.op, st.heap, x), st)
           [] i.op = "custom" -> Ret(EvalCustom(i.name, x), st)
           [] i.op = "builtin" ->
                Ret(EvalBuiltin(i.name, x),
                    [st EXCEPT !.calls["Object.prototype"] = @ + 1])
           [] i.op = "notCallable" -> Ret("TypeError", st)
           [] i.op = "is" -> CallIs(i.name, x, st, d)
           [] i.op = "isOptional" -> Eval(isAnyOf(<<Prim("isUndefined"), i.args[1]>>), x, st, d)
           [] i.op = "isNullable" -> Eval(isAnyOf(<<Prim("isNull"), i.args[1]>>), x, st, d)
           [] i.op = "isNot" ->
                LET r == Eval(i.args[1], x, st, d + 1)
                IN  IF Throws(r.r) THEN r ELSE Ret(B(r.r = "false"), r.st)
           [] i.op = "isExact" -> Ret(B(StrictEquals(x, i.vals[1])), st)
           [] i.op = "isInstanceOf" -> Ret(B(IsRef(x) /\ st.heap[x.n].cls = i.name), st)
           [] i.op = "isIterableOf" -> CallIterableOf(i.args[1], x, st, d)
           [] i.op = "isArrayOf" -> CallArrayOf(i.args[1], x, st, d)
           [] i.op = "isSetOf" -> CallSetOf(i.args[1], x, st, d)
           [] i.op = "isMapOf" -> CallMapOf(i.args[1], i.args[2], x, st, d)
           [] i.op = "isRecordOf" -> CallRecordOf(i.args[1], i.args[2], x, st, d)
           [] i.op = "isAnyOf" -> Some(i.args, x, st, d)
           [] i.op = "isAllOf" -> Every(i.args, x, st, d)
           [] i.op = "isTupleOf" -> CallTupleOf(i.args, x, st, d)
           [] i.op = "isObjectOf" -> CallObjectOf(i.shape, x, st, d)
           [] i.op = "isPartialOf" -> CallPartialOf(i.shape, x, st, d)
           [] i.op = "isNumberBetween" -> Ret(B(isNumberBetween(i.vals[1], i.vals[2], x)), st)
           [] i.op = "isNonEmptyArrayOf" -> CallNonEmptyArrayOf(i.args[1], x, st, d)
           [] i.op = "isRefined" -> CallRefined(i.args[1], i.preds, x, st, d)
           [] i.op = "isStringMatching" -> CallStringMatching(i.name, x, st)

(***************************************************************************)
(* The caller's objects.                                                   *)
(***************************************************************************)
InitHeap ==
    <<  Obj("Array", <<>>, <<>>),                                               \* 1  []
        Obj("Object", <<P("value", Str("a")), P("children", Ref(1))>>, <<>>),   \* 2  a leaf
        Obj("Array", <<>>, <<Ref(2)>>),                                         \* 3
        Obj("Object", <<P("value", Str("root")), P("children", Ref(3))>>, <<>>),\* 4  a valid tree
        Obj("Object", <<P("value", Num(123)), P("children", Ref(1))>>, <<>>),   \* 5  a bad leaf
        Obj("Array", <<>>, <<Ref(2), Ref(5)>>),                                 \* 6
        Obj("Object", <<P("value", Str("root")), P("children", Ref(6))>>, <<>>),\* 7  bad at depth 2
        Obj("Array", <<>>, <<Ref(4), Ref(7)>>),                                 \* 8
        Obj("Object", <<P("value", Str("root")), P("children", Ref(8))>>, <<>>),\* 9  bad at depth 3
        Obj("Object", <<P("name", Str("circular")), P("self", Ref(10))>>, <<>>),\* 10 ouroboros
        Obj("Object", <<P("name", Str("a")), P("self", Ref(12))>>, <<>>),       \* 11 a ring of two
        Obj("Object", <<P("name", Str("b")), P("self", Ref(11))>>, <<>>),       \* 12
        Obj("Generator", <<>>, <<Str("a"), Num(1)>>),                           \* 13 yields "a", 1
        Obj("Object", <<P(IterKey, Fn)>>, <<>>),                                \* 14 [Symbol.iterator]: () => {}
        Obj("Object", <<P("hasOwnProperty", Num(1)), P("a", Num(1))>>, <<>>),   \* 15
        Obj("Array", <<>>, <<Str("a"), Str("b")>>),                             \* 16
        Obj("Array", <<>>, <<Num(1), Str("a")>>),                               \* 17
        Obj("Instance", <<P("a", Str("a"))>>, <<>>),                            \* 18 new Foo()
        Obj("NullProto", <<P("a", Str("a"))>>, <<>>),                           \* 19 Object.create(null)
        Obj("Set", <<>>, <<Str("a")>>),                                         \* 20
        Obj("Map", <<>>, <<Str("a"), Num(1)>>),                                 \* 21 "a" -> 1
        Obj("String", <<>>, <<Str("a"), Str("b")>>),                            \* 22 new String("ab")
        Obj("Object", <<P("length", Num(-1))>>, <<>>),                          \* 23
        Obj("Object", <<P("a", Str("a")), P("b", Num(1))>>, <<>>),              \* 24
        Obj("Object", <<P("then", Fn)>>, <<>>),                                 \* 25 a thenable
        Obj("Array", <<>>, <<Sym>>),                                            \* 26 [Symbol()]
        Obj("Promise", <<>>, <<>>),                                             \* 27
        Obj("Object", <<P("value", Str("a"))>>, <<>>),                          \* 28 no children
        Obj("Generator", <<>>, <<Str("a"), Str("b")>>),                         \* 29 yields "a", "b"
        Obj("Object", <<>>, <<>>),                                              \* 30 {}
        Obj("Set", <<>>, <<>>),                                                 \* 31 new Set()
        Obj("Map", <<>>, <<>>),                                                 \* 32 new Map()
        Obj("Array", <<>>, <<Str("a")>>),                                       \* 33 ["a"]
        Obj("Array", <<>>, <<Str("a"), Num(1), Str("b")>>),                     \* 34 ["a", 1, "b"]
        Obj("Object", <<P("isPrototypeOf", Num(1))>>, <<>>),                    \* 35
        Obj("Object", <<P("a", Undefined), P("b", Num(1))>>, <<>>),             \* 36 {a: undefined, b: 1}
        Obj("Object", <<P("b", Num(1))>>, <<>>),                                \* 37 {b: 1}
        Obj("Object", <<P("__proto__", Num(1))>>, <<>>),                        \* 38 JSON.parse('{"__proto__": 1}')
        Obj("Map", <<>>, <<Str("a"), Num(1), Num(1), Str("a")>>)                \* 39 "a" -> 1, 1 -> "a"
    >>

Ids == DOMAIN InitHeap

\* obj[key] = v as the caller writes it
Put(o, key, v) ==
    IF IsIndexKey(o, key)
    THEN [o EXCEPT !.elems[CHOOSE j \in 1..Len(o.elems) : IndexKeys(o)[j] = key] = v]
    ELSE IF HasOwn(o, key)
    THEN [o EXCEPT !.props = [j \in 1..Len(o.props) |->
                                IF o.props[j].k = key THEN P(key, v) ELSE o.props[j]]]
    ELSE [o EXCEPT !.props = Append(o.props, P(key, v))]

M(id, key, v) == [id |-> id, key |-> key, v |-> v]

(***************************************************************************)
(* What a run draws from: the inspectors the caller may construct, the     *)
(* values it may inspect and the assignments it may make to its objects.   *)
(***************************************************************************)
Families == {"prim", "lazy", "coll", "equiv", "iter", "assoc", "shape", "logic"}

Primitives ==
    {Undefined, Null, True, False, Num(0), Num(1), Num(-1), Num(255), Num(256),
     Word(65535, 65535), Word(65536, 0), Half(1), NaN, PosInf, NegInf,
     BigInt(1), Sym, Str(""), Str("a"), Str("0"), Fn, Class}

isTreeNode == is("sTree")
isOuroboros == is("sOuroboros")
throwingInspector == is("sThrow")
lazyInspector == is("sString")

PrimCatalog ==
    {Prim(op) : op \in PrimOps}
        \cup {isNumberBetweenOf(Num(0), Num(255)), isNumberBetweenOf(Num(1), Num(0))}

LazyCatalog ==
    {lazyInspector, throwingInspector, isTreeNode, isOuroboros,
     isObjectOf(<<E("a", Prim("isString")), E("b", throwingInspector)>>),
     isArrayOf(throwingInspector),
     isAnyOf(<<Prim("isNumber"), throwingInspector>>),
     isAllOf(<<Prim("isObject"), throwingInspector>>),
     isArrayOf(lazyInspector),
     isOptional(isOuroboros),
     isArrayOf(isOuroboros),
     isObjectOf(<<E("a", Prim("isString"))>>),
     isTupleOf(<<Prim("isString"), Prim("isNumber")>>),
     isPartialOf(<<E("a", Prim("isString"))>>)}

CollCatalog ==
    {isIterableOf(Prim("isString")), isIterableOf(isNever), isIterableOf(isAny),
     isArrayOf(Prim("isString")), isSetOf(Prim("isString")),
     isMapOf(Prim("isString"), Prim("isNumber")),
     isRecordOf(Prim("isString"), Prim("isString")),
     isTupleOf(<<Prim("isString"), Prim("isNumber")>>),
     isObjectOf(<<E("a", Prim("isString"))>>),
     isPartialOf(<<E("a", Prim("isString"))>>),
     isAnyOf(<<Prim("isString"), Prim("isNumber")>>),
     isAllOf(<<Prim("isObject"), Prim("isIterable")>>),
     isOptional(Prim("isString")), isNullable(Prim("isString")),
     isNot(Prim("isString")), isExact(Str("a")),
     isNonEmptyArrayOf(Prim("isString")),
     isRefined(Prim("isNumber"), <<"positive">>),
     isStringMatching("/a/"), isStringMatching("/a/g"), isStringMatching("/a/y"),
     isStringMatching("/^a$/")}

\* pairs of inspectors that return the same boolean on every value
Swap(isT) ==
    CASE isT = isNever -> Custom("constFalse")
      [] isT = Custom("constFalse") -> isNever
      [] isT = isAny -> Custom("constTrue")
      [] isT = Custom("constTrue") -> isAny
      [] isT = Prim("isString") -> lazyInspector
      [] isT = lazyInspector -> Prim("isString")
      [] OTHER -> isT

\* suppliers that return such pairs
SwapSupplier(lazy) ==
    CASE lazy = "sNever" -> "sFalse"
      [] lazy = "sFalse" -> "sNever"
      [] lazy = "sAny" -> "sTrue"
      [] lazy = "sTrue" -> "sAny"
      [] OTHER -> lazy

Leaves ==
    {isNever, Custom("constFalse"), isAny, Custom("constTrue"), Prim("isString"),
     lazyInspector}

EquivCatalog ==
    UNION {{isOptional(a), isNullable(a), isNot(a), isIterableOf(a), isArrayOf(a),
            isSetOf(a), isMapOf(a, a), isRecordOf(a, a),
            isAnyOf(<<a, Prim("isNumber")>>), isAllOf(<<a, Prim("isObject")>>),
            isTupleOf(<<a>>), isObjectOf(<<E("a", a)>>), isPartialOf(<<E("a", a)>>),
            isNonEmptyArrayOf(a), isRefined(a, <<"always">>)} : a \in Leaves}
        \cup {is("sNever"), is("sFalse"), is("sAny"), is("sTrue")}

\* the inspectors handed to the homogeneous-container combinators
IterArgs ==
    {isNever, isAny, Prim("isString"), Custom("constFalse"), Custom("constTrue"),
     lazyInspector, throwingInspector}

MapArgs == {isNever, isAny, Prim("isString"), Prim("isNumber"), Custom("constFalse")}

IterCatalog ==
    UNION {{isIterableOf(a), isArrayOf(a), isSetOf(a)} : a \in IterArgs}
        \cup {isMapOf(a, b) : a \in MapArgs, b \in MapArgs}

\* isMapOf and isRecordOf over every pair of key and value inspectors
AssocCatalog ==
    {isMapOf(a, b) : a \in MapArgs, b \in MapArgs}
        \cup {isRecordOf(a, b) : a \in MapArgs, b \in MapArgs}

\* shapes over the keys a, b and c
Shapes ==
    {<<>>,
     <<E("a", Prim("isString"))>>,
     <<E("a", Prim("isString")), E("b", Prim("isNumber"))>>,
     <<E("a", isOptional(Prim("isString"))), E("b", Prim("isNumber"))>>,
     <<E("a", Prim("isUndefined"))>>,
     <<E("c", isNever)>>}

TupleCatalog ==
    {isTupleOf(<<>>),
     isTupleOf(<<Prim("isString")>>),
     isTupleOf(<<Prim("isString"), Prim("isNumber")>>),
     isTupleOf(<<Prim("isString"), isOptional(Prim("isNumber"))>>),
     isTupleOf(<<isOptional(Prim("isString")), isOptional(Prim("isNumber"))>>),
     isTupleOf(<<Prim("isString"), Prim("isUndefined")>>)}

ShapeCatalog ==
    TupleCatalog \cup {isObjectOf(type) : type \in Shapes}
        \cup {isPartialOf(type) : type \in Shapes}

\* unions and intersections whose members are all lazy, over distinct suppliers
ProbeAny == isAnyOf(<<is("sNever"), is("sString"), is("sThrow"), is("sAny")>>)
ProbeAll == isAllOf(<<is("sAny"), is("sString"), is("sThrow"), is("sNever")>>)
ProbeRecursive == isAnyOf(<<is("sString"), isOuroboros>>)

LogicArgs ==
    {Prim("isString"), Prim("isNullish"), Prim("isUndefined"), Prim("isNull"),
     Prim("isUInt32"), isNever, isAny, lazyInspector, throwingInspector, isOuroboros}

RefinedCatalog ==
    {isRefined(Prim("isNumber"), <<"always", "positive", "never">>),
     isRefined(Prim("isNumber"), <<"positive", "always">>),
     isRefined(Prim("isNumber"), <<>>),
     isRefined(Prim("isString"), <<"never", "always">>),
     isRefined(lazyInspector, <<>>),
     isRefined(throwingInspector, <<"always">>),
     isRefined(Prim("isUInt32"), <<"positive">>)}

LogicCatalog ==
    UNION {{isAnyOf(<<a>>), isAllOf(<<a>>), isOptional(a), isNullable(a)} : a \in LogicArgs}
        \cup {isAnyOf(<<>>), isAllOf(<<>>), ProbeAny, ProbeAll, ProbeRecursive}
        \cup RefinedCatalog

Catalog(f) ==
    CASE f = "prim" -> PrimCatalog
      [] f = "lazy" -> LazyCatalog
      [] f = "coll" -> CollCatalog
      [] f = "equiv" -> EquivCatalog
      [] f = "iter" -> IterCatalog
      [] f = "assoc" -> AssocCatalog
      [] f = "shape" -> ShapeCatalog
      [] f = "logic" -> LogicCatalog

Inputs(f) ==
    CASE f = "prim" -> Primitives \cup {Ref(id) : id \in {1, 13, 16, 18, 19, 20, 21, 22, 23, 24, 25, 26, 27, 30, 38}}
      [] f = "lazy" ->
            {Undefined, Num(1), Str("a")}
                \cup {Ref(id) : id \in {1, 2, 4, 7, 9, 10, 11, 16, 24, 28}}
      [] f = "coll" ->
            {Undefined, Null, Num(1), Num(0), Str("a"), Str("b"), Str("ba"), Str("")}
                \cup {Ref(id) : id \in {1, 13, 14, 15, 16, 17, 19, 20, 21, 22, 24, 29, 30}}
      [] f = "equiv" ->
            {Undefined, Null, Num(1), Str("a")}
                \cup {Ref(id) : id \in {1, 14, 16, 17, 20, 21, 24, 30}}
      [] f = "iter" ->
            {Undefined, Num(1), Str(""), Str("ab")}
                \cup {Ref(id) : id \in {1, 13, 14, 16, 17, 20, 21, 29, 30, 31, 32}}
      [] f = "assoc" ->
            {Null, Str("a")}
                \cup {Ref(id) : id \in {1, 18, 19, 21, 24, 30, 32, 39}}
      [] f = "shape" ->
            {Undefined, Null, Num(1), Str("a"), Fn}
                \cup {Ref(id) : id \in {1, 15, 16, 17, 18, 19, 24, 30, 33, 34, 35, 36, 37}}
      [] f = "logic" ->
            {Undefined, Null, Num(1), Num(-1), Str("a"), Sym}
                \cup {Ref(id) : id \in {4, 10, 24}}

Mutations(f) ==
    CASE f = "prim" ->
            {M(23, "length", Half(1)), M(24, "length", Num(2)), M(23, "length", NaN),
             M(23, "length", PosInf), M(23, "length", Str("0")), M(23, "length", True),
             M(23, "length", Undefined)}
      [] f = "lazy" ->
            {M(2, "value", Num(123)), M(5, "value", Str("a")), M(2, "children", Ref(3)),
             M(10, "name", Num(1)), M(24, "a", Num(1)), M(16, "1", Num(1))}
      [] f = "coll" ->
            {M(24, "a", Num(1)), M(16, "0", Num(1)), M(30, "a", Str("a"))}
      [] f = "equiv" -> {M(16, "0", Num(1)), M(17, "0", Str("b"))}
      [] f = "iter" -> {M(16, "0", Num(1)), M(17, "0", Str("b")), M(30, "a", Str("a"))}
      [] f = "assoc" -> {M(30, "a", Str("a")), M(24, "b", Str("b"))}
      [] f = "shape" ->
            {M(24, "z", Str("a")), M(30, "z", Num(1)), M(37, "a", Str("a")),
             M(33, "0", Num(1))}
      [] f = "logic" -> {M(10, "name", Num(1)), M(24, "a", Num(1))}

(***************************************************************************)
(* The caller's steps.                                                     *)
(***************************************************************************)
MaxApps == 2
MaxMuts == 1

NoInsp == Prim("none")
NoLast == [x |-> Undefined, r |-> "none"]

State == [heap |-> heap, lastIndex |-> lastIndex, calls |-> calls]

\* isT(x), called by the caller
Inspect(isT, x) == Eval(isT, x, State, 1)

Init ==
    /\ family \in Families
    /\ cur = NoInsp
    /\ heap = InitHeap
    /\ lastIndex = [p \in PatternNames |-> 0]
    /\ calls = [l \in SupplierNames \cup PredicateNames \cup {"Object.prototype"} |-> 0]
    /\ last = NoLast
    /\ napps = 0
    /\ nmuts = 0
    /\ dirty = FALSE
    /\ flipped = "no"

\* const isT = ...: the caller builds an inspector out of the library
Construct(i) ==
    /\ cur = NoInsp
    /\ i \in Catalog(family)
    /\ cur' = i
    /\ UNCHANGED <<family, heap, lastIndex, calls, last, napps, nmuts, dirty, flipped>>

\* isT(x)
Apply(x) ==
    /\ cur # NoInsp
    /\ napps < MaxApps
    /\ x \in Inputs(family)
    /\ LET res == Inspect(cur, x)
       IN  /\ heap' = res.st.heap
           /\ lastIndex' = res.st.lastIndex
           /\ calls' = res.st.calls
           /\ last' = [x |-> x, r |-> res.r]
           /\ flipped' =
                IF last.r \in {"true", "false"} /\ dirty /\ last.x = x
                       /\ res.r \in {"true", "false"} /\ res.r # last.r
                THEN (IF res.r = "false" THEN "broken" ELSE "repaired")
                ELSE flipped
    /\ napps' = napps + 1
    /\ dirty' = FALSE
    /\ UNCHANGED <<family, cur, nmuts>>

\* obj[key] = v, by the caller, between applications
Mutate(m) ==
    /\ cur # NoInsp
    /\ nmuts < MaxMuts
    /\ m \in Mutations(family)
    /\ heap' = [heap EXCEPT ![m.id] = Put(@, m.key, m.v)]
    /\ heap' # heap
    /\ nmuts' = nmuts + 1
    /\ dirty' = TRUE
    /\ UNCHANGED <<family, cur, lastIndex, calls, last, napps, flipped>>

Next ==
    \/ \E i \in Catalog(family) : Construct(i)
    \/ \E x \in Inputs(family) : Apply(x)
    \/ \E m \in Mutations(family) : Mutate(m)

Spec == Init /\ [][Next]_vars

\* a session over one family of inspectors
InitPrim == Init /\ family = "prim"
InitLazy == Init /\ family = "lazy"
InitColl == Init /\ family = "coll"
InitEquiv == Init /\ family = "equiv"
InitIter == Init /\ family = "iter"
InitShape == Init /\ family = "shape"
InitLogic == Init /\ family = "logic"
InitAssoc == Init /\ family = "assoc"

SpecPrim == InitPrim /\ [][Next]_vars
SpecLazy == InitLazy /\ [][Next]_vars
SpecColl == InitColl /\ [][Next]_vars
SpecEquiv == InitEquiv /\ [][Next]_vars
SpecIter == InitIter /\ [][Next]_vars
SpecShape == InitShape /\ [][Next]_vars
SpecLogic == InitLogic /\ [][Next]_vars
SpecAssoc == InitAssoc /\ [][Next]_vars

(***************************************************************************)
(* What the documentation says of the inputs, stated without the           *)
(* evaluator: used to say what an application should have returned.        *)
(***************************************************************************)
IsStringValue(h, v) == v.t = "string" \/ (IsRef(v) /\ h[v.n].cls = "String")
IsArrayValue(h, v) == IsRef(v) /\ h[v.n].cls = "Array"

\* the objects an object refers to
Children(h, id) ==
    {h[id].props[j].v : j \in 1..Len(h[id].props)} \cup {h[id].elems[j] : j \in 1..Len(h[id].elems)}

RECURSIVE OnCycle(_, _, _)
\* some path of references from x comes back to an object it went through
OnCycle(h, x, seen) ==
    /\ IsRef(x)
    /\ \/ x.n \in seen
       \/ \E c \in Children(h, x.n) : OnCycle(h, c, seen \cup {x.n})
Acyclic(h, x) == ~OnCycle(h, x, {})

\* the checks isTreeNode makes on a node before it descends into the children
TreeHead(h, x) ==
    /\ x # Null /\ x.t = "object"
    /\ IsStringValue(h, Get(h, x, "value"))
    /\ IsArrayValue(h, Get(h, x, "children"))

RECURSIVE WellFormedTree(_, _)
\* x is an object whose value is a string and whose children is an array of
\* such objects (for an acyclic x)
WellFormedTree(h, x) ==
    /\ TreeHead(h, x)
    /\ LET cs == h[Get(h, x, "children").n].elems
       IN  \A j \in 1..Len(cs) : WellFormedTree(h, cs[j])

RECURSIVE TreeVisits(_, _)
RECURSIVE TreeVisitsSeq(_, _)
\* the nodes of an acyclic x that a left-to-right walk reaches up to the first
\* node that is not well formed: n counts them, ok says all were well formed
TreeVisits(h, x) ==
    IF ~TreeHead(h, x) THEN [n |-> 1, ok |-> FALSE]
    ELSE LET c == TreeVisitsSeq(h, h[Get(h, x, "children").n].elems)
         IN  [n |-> 1 + c.n, ok |-> c.ok]
TreeVisitsSeq(h, seq) ==
    IF seq = <<>> THEN [n |-> 0, ok |-> TRUE]
    ELSE LET a == TreeVisits(h, Head(seq))
         IN  IF ~a.ok THEN a
             ELSE LET b == TreeVisitsSeq(h, Tail(seq))
                  IN  [n |-> a.n + b.n, ok |-> b.ok]

Applied == napps' = napps + 1
Constructed == cur = NoInsp /\ cur' # NoInsp
OthersUnchanged(lazy) == \A l \in SupplierNames \ {lazy} : calls'[l] = calls[l]

(***************************************************************************)
(* C1.  Constructing is(s) does not invoke the supplier s, and every       *)
(* application of is(s) invokes s exactly once: a top-level application    *)
(* of is(s) for a supplier that returns a basic inspector (or throws)      *)
(* adds one invocation; isArrayOf(is(s)) that accepts an array invoked s   *)
(* once per element; the recursive isTreeNode invoked its supplier once    *)
(* per node that the walk of an acyclic tree reaches.  No invocation is    *)
(* saved by reusing an earlier result.                                     *)
(***************************************************************************)
C1_SupplierOncePerApplication ==
    [][ /\ (Constructed => calls' = calls)
        /\ (Applied /\ cur \in {lazyInspector, throwingInspector} =>
                /\ calls'[cur.name] = calls[cur.name] + 1
                /\ OthersUnchanged(cur.name))
        /\ (Applied /\ cur = isArrayOf(lazyInspector) /\ last'.r = "true" =>
                calls'["sString"] = calls["sString"] + Len(heap[last'.x.n].elems))
        /\ (Applied /\ cur = isTreeNode /\ Acyclic(heap, last'.x) =>
                /\ calls'["sTree"] = calls["sTree"] + TreeVisits(heap, last'.x).n
                /\ OthersUnchanged("sTree"))
      ]_vars

\* isTreeNode has been applied twice, the second time to the valid tree of
\* two nodes, and its supplier has run at least once per node and application
C1_Witness ==
    /\ cur = isTreeNode
    /\ napps = 2
    /\ last = [x |-> Ref(4), r |-> "true"]
    /\ calls["sTree"] >= 3

(***************************************************************************)
(* C2.  When the supplier handed to is() throws, the application that      *)
(* reached the lazy inspector ends in that error, whether the lazy         *)
(* inspector is applied directly or sits inside isObjectOf, isArrayOf,     *)
(* isAnyOf or isAllOf; the supplier is invoked once, not retried; an       *)
(* application that does not reach it returns a boolean.                   *)
(***************************************************************************)
\* the evaluation of isT on x gets as far as applying throwingInspector
ReachesThrowing(isT, h, x) ==
    CASE isT = throwingInspector -> TRUE
      [] isT = isArrayOf(throwingInspector) -> IsArrayValue(h, x) /\ h[x.n].elems # <<>>
      [] isT = isObjectOf(<<E("a", Prim("isString")), E("b", throwingInspector)>>) ->
            x # Null /\ x.t = "object" /\ IsStringValue(h, Get(h, x, "a"))
      [] isT = isAnyOf(<<Prim("isNumber"), throwingInspector>>) -> x.t # "number"
      [] isT = isAllOf(<<Prim("isObject"), throwingInspector>>) -> x # Null /\ x.t = "object"
      [] OTHER -> FALSE

C2_SupplierFailurePropagates ==
    [][ Applied =>
            IF ReachesThrowing(cur, heap, last'.x)
            THEN last'.r = "Error" /\ calls'["sThrow"] = calls["sThrow"] + 1
            ELSE calls'["sThrow"] = calls["sThrow"] /\ last'.r # "Error"
      ]_vars

\* the throwing lazy inspector was reached inside isAnyOf, and the error came out
C2_Witness ==
    /\ cur = isAnyOf(<<Prim("isNumber"), throwingInspector>>)
    /\ last = [x |-> Str("a"), r |-> "Error"]
    /\ calls["sThrow"] = 1

(***************************************************************************)
(* C3.  Two successive applications of the same inspector to the same      *)
(* input, with no change made to the input by anyone else in between,      *)
(* return the same result.                                                 *)
(***************************************************************************)
C3_SameInputSameResult ==
    [][ (Applied /\ last.r # "none" /\ ~dirty /\ last'.x = last.x) => last'.r = last.r ]_vars

(***************************************************************************)
(* C4.  An application leaves the caller's objects as they were: their     *)
(* properties, their elements, and the values an iterator has yet to       *)
(* produce.                                                                *)
(***************************************************************************)
C4_InputUnchanged == [][ Applied => heap' = heap ]_vars

(***************************************************************************)
(* C5.  No result is kept per input: whenever an inspector built by        *)
(* isObjectOf, isArrayOf, isTupleOf, isPartialOf or is() has been applied  *)
(* and the caller has not touched the objects since, the result is what    *)
(* the objects as they are now call for, whatever was returned for the     *)
(* same reference before a mutation.                                       *)
(***************************************************************************)
\* what the documentation of isT asks of x, for the inspectors of the claim
Conforms(isT, h, x) ==
    CASE isT = isObjectOf(<<E("a", Prim("isString"))>>) ->
            x # Null /\ x.t = "object" /\ IsStringValue(h, Get(h, x, "a"))
      [] isT = isArrayOf(lazyInspector) ->
            IsArrayValue(h, x) /\ \A j \in 1..Len(h[x.n].elems) : IsStringValue(h, h[x.n].elems[j])
      [] isT = isTupleOf(<<Prim("isString"), Prim("isNumber")>>) ->
            /\ IsArrayValue(h, x)
            /\ Len(h[x.n].elems) >= 2
            /\ IsStringValue(h, h[x.n].elems[1])
            /\ h[x.n].elems[2].t = "number"
      [] isT = isPartialOf(<<E("a", Prim("isString"))>>) ->
            /\ x # Null /\ x.t = "object"
            /\ (IsRef(x) /\ HasOwn(h[x.n], "a") => IsStringValue(h, Get(h, x, "a")))
      [] isT = isTreeNode -> WellFormedTree(h, x)

UncachedInspectors ==
    {isObjectOf(<<E("a", Prim("isString"))>>), isArrayOf(lazyInspector),
     isTupleOf(<<Prim("isString"), Prim("isNumber")>>),
     isPartialOf(<<E("a", Prim("isString"))>>), isTreeNode}

C5_NoResultCache ==
    (cur \in UncachedInspectors /\ last.r # "none" /\ ~dirty /\ Acyclic(heap, last.x))
        => last.r = B(Conforms(cur, heap, last.x))

\* an object passed isObjectOf, was broken by the caller, and then failed
C5_Witness ==
    /\ cur = isObjectOf(<<E("a", Prim("isString"))>>)
    /\ flipped = "broken"
    /\ last = [x |-> Ref(24), r |-> "false"]

(***************************************************************************)
(* C6.  As claimed: for every combinator C and two inspectors that return  *)
(* the same boolean on every value, C of the one and C of the other        *)
(* return the same result on every input.                                  *)
(***************************************************************************)
\* the inspector built like isT, from the equivalent inspectors
Twin(isT) ==
    [isT EXCEPT !.args = [j \in 1..Len(isT.args) |-> Swap(isT.args[j])],
                !.shape = [j \in 1..Len(isT.shape) |->
                              E(isT.shape[j].k, Swap(isT.shape[j].i))],
                !.name = IF isT.op = "is" THEN SwapSupplier(@) ELSE @]

SentinelSensitive(isT) ==
    /\ isT.op \in {"isIterableOf", "isArrayOf", "isSetOf", "isMapOf"}
    /\ \E j \in 1..Len(isT.args) :
            {isT.args[j], Swap(isT.args[j])} \cap {isNever, isAny} # {}

TotalInspectors ==
    {Prim(op) : op \in {"isNullish", "isBoolean", "isNumber", "isInt", "isUInt32", "isUInt8",
                        "isBigInt", "isString", "isArray", "isObject", "isStruct",
                        "isPlainObject", "isInstance", "isIterable", "isIterator",
                        "isArrayLike", "isPromiseLike", "isNonEmptyArray"}}
        \cup {isNumberBetweenOf(Num(0), Num(255)), isNumberBetweenOf(Num(1), Num(0))}

C7_PrimitivesTotal ==
    (cur \in TotalInspectors /\ last.r # "none" /\ Acyclic(heap, last.x))
        => last.r \in {"true", "false"}

(***************************************************************************)
(* C8.  An inspector built from primitives and the higher-order            *)
(* combinators, without lazy suppliers, reports a finite acyclic value     *)
(* that does not conform as false, never as an exception.                  *)
(***************************************************************************)
C8_RejectsWithFalse ==
    (cur \in CollCatalog /\ last.r # "true" /\ last.r # "none" /\ Acyclic(heap, last.x))
        => last.r = "false"

RECURSIVE SelfCycle(_, _, _)
\* following self from x, every node is an object with a string name, and
\* the walk comes back to a node it went through
SelfCycle(h, x, seen) ==
    /\ IsRef(x)
    /\ IsStringValue(h, Get(h, x, "name"))
    /\ \/ x.n \in seen
       \/ SelfCycle(h, Get(h, x, "self"), seen \cup {x.n})

RECURSIVE TreeCycle(_, _, _)
\* following the first child from x, every node passes the checks made
\* before the descent, and the walk comes back to a node it went through
TreeCycle(h, x, seen) ==
    /\ TreeHead(h, x)
    /\ \/ x.n \in seen
       \/ LET cs == h[Get(h, x, "children").n].elems
          IN  cs # <<>> /\ TreeCycle(h, cs[1], seen \cup {x.n})

\* the evaluation of isT on x descends round a cycle without end
Diverges(isT, h, x) ==
    CASE isT = isOuroboros -> SelfCycle(h, x, {})
      [] isT = isOptional(isOuroboros) -> SelfCycle(h, x, {})
      [] isT = isArrayOf(isOuroboros) ->
            IsArrayValue(h, x) /\ h[x.n].elems # <<>> /\ SelfCycle(h, h[x.n].elems[1], {})
      [] isT = isTreeNode -> TreeCycle(h, x, {})
      [] OTHER -> FALSE

C10_CyclicDataExhaustsStack ==
    (last.r # "none" /\ ~dirty /\ Diverges(cur, heap, last.x)) => last.r = "RangeError"

\* isOuroboros applied to the object whose self is itself ended in the RangeError
C10_Witness ==
    /\ cur = isOuroboros
    /\ last = [x |-> Ref(10), r |-> "RangeError"]
    /\ ~dirty
    /\ SelfCycle(heap, Ref(10), {})

(***************************************************************************)
(* C11.  Vacuous truth on empty containers: isArrayOf(isT) applied to [],  *)
(* isSetOf(isT) to the empty Set, isMapOf(isK, isV) to the empty Map and   *)
(* isIterableOf(isT) to any of them (or to the empty string) return true   *)
(* for every isT that is not isNever, whether isT would accept, reject or  *)
(* throw; with isNever they return false, and with isAny true.             *)
(***************************************************************************)
\* x is an empty container of the kind the combinator of isT is made for
EmptyFor(isT, h, x) ==
    CASE isT.op = "isArrayOf" -> IsArrayValue(h, x) /\ h[x.n].elems = <<>>
      [] isT.op = "isSetOf" -> IsRef(x) /\ h[x.n].cls = "Set" /\ h[x.n].elems = <<>>
      [] isT.op = "isMapOf" -> IsRef(x) /\ h[x.n].cls = "Map" /\ h[x.n].elems = <<>>
      [] isT.op = "isIterableOf" ->
            \/ x = Str("")
            \/ IsRef(x) /\ h[x.n].cls \in {"Array", "Set", "Map"} /\ h[x.n].elems = <<>>
      [] OTHER -> FALSE

Produced(h, x) ==
    CASE x.t = "string" -> [j \in 1..Len(Chars(x.s)) |-> Str(Chars(x.s)[j])]
      [] IsRef(x) /\ HasOwn(h[x.n], IterKey) -> <<>>
      [] IsRef(x) /\ h[x.n].cls = "Map" ->
            [j \in 1..(Len(h[x.n].elems) \div 2) |-> Proto("Array")]
      [] IsRef(x) -> h[x.n].elems
      [] OTHER -> <<>>

\* x is iterable: it is neither undefined nor null and has an iterator method
IterableValue(h, x) ==
    \/ x.t = "string"
    \/ IsRef(x) /\ (HasOwn(h[x.n], IterKey)
                        \/ h[x.n].cls \in {"Array", "String", "Set", "Map", "Generator"})

\* v satisfies isT, for the inspectors that return a boolean on every value
Satisfies(isT, h, v) ==
    CASE isT \in {Prim("isString"), lazyInspector} -> IsStringValue(h, v)
      [] isT = Custom("constTrue") -> TRUE
      [] OTHER -> FALSE

\* the number of elements isT is applied to: all of them, or those up to and
\* including the first it rejects
AppliedTo(isT, h, seq) ==
    IF \A j \in 1..Len(seq) : Satisfies(isT, h, seq[j]) THEN Len(seq)
    ELSE CHOOSE j \in 1..Len(seq) :
            /\ ~Satisfies(isT, h, seq[j])
            /\ \A l \in 1..(j - 1) : Satisfies(isT, h, seq[l])

C12_SentinelOverrides ==
    [][ (Applied /\ cur.op = "isIterableOf" /\ cur.args[1] # throwingInspector) =>
            LET isT == cur.args[1]
                x == last'.x
                seq == Produced(heap, x)
            IN  IF ~IterableValue(heap, x) THEN last'.r = "false"
                ELSE IF isT = isNever THEN last'.r = "false"
                ELSE IF isT = isAny THEN last'.r = "true" /\ heap' = heap
                ELSE /\ last'.r = B(\A j \in 1..Len(seq) : Satisfies(isT, heap, seq[j]))
                     /\ (isT = lazyInspector =>
                            calls'["sString"] = calls["sString"] + AppliedTo(isT, heap, seq))
      ]_vars

(***************************************************************************)
(* C13.  Tuple prefix law: isTupleOf(i_1, ..., i_n) applied to a is true   *)
(* exactly when a is an array and every i_k accepts the element of a at    *)
(* position k - 1, taken as undefined when a is shorter; the elements at   *)
(* position n and beyond are not looked at.                                *)
(***************************************************************************)
\* a[k - 1], undefined past the end
ElementOrUndefined(h, a, k) == IF k <= Len(h[a.n].elems) THEN h[a.n].elems[k] ELSE Undefined

\* isT accepts v
Accepts(isT, v) == Eval(isT, v, State, 1).r = "true"

C13_TuplePrefix ==
    (cur \in TupleCatalog /\ last.r # "none" /\ ~dirty) =>
        last.r = B(/\ IsArrayValue(heap, last.x)
                   /\ \A k \in 1..Len(cur.args) :
                        Accepts(cur.args[k], ElementOrUndefined(heap, last.x, k)))

\* ["a"] passed isTupleOf(isString, isOptional(isNumber))
C13_Witness ==
    /\ cur = isTupleOf(<<Prim("isString"), isOptional(Prim("isNumber"))>>)
    /\ last = [x |-> Ref(33), r |-> "true"]
    /\ ~dirty
    /\ Len(heap[33].elems) = 1

(***************************************************************************)
(* C14.  isObjectOf(shape) applied to v is true exactly when v is an       *)
(* object other than null and, for every key of the shape, the inspector   *)
(* at that key accepts v[key]; a key v does not have reads as undefined,   *)
(* which is handed to the inspector as it is, so a missing key passes      *)
(* exactly when its inspector accepts undefined.                           *)
(***************************************************************************)
\* v[key] for a key that is a plain name: the own property, or undefined
PropertyOrUndefined(h, v, key) ==
    IF IsRef(v) /\ HasOwn(h[v.n], key) THEN OwnGet(h[v.n], key) ELSE Undefined

ExtraKeys == {"z", "b", "c", "hasOwnProperty"}
ExtraValues == {Undefined, Null, Num(1), Str("a"), Ref(1)}

ShapeKeys(type) == {type[j].k : j \in 1..Len(type)}

C15_ObjectOfOpen ==
    [][ (Applied /\ cur.op = "isObjectOf" /\ IsRef(last'.x)) =>
            \A key \in ExtraKeys \ ShapeKeys(cur.shape) : \A v \in ExtraValues :
                ~HasOwn(heap'[last'.x.n], key) =>
                    Eval(cur, last'.x,
                         [heap |-> [heap' EXCEPT ![last'.x.n] = Put(@, key, v)],
                          lastIndex |-> lastIndex', calls |-> calls'], 1).r = last'.r
      ]_vars

\* {a: "a", b: 1} passed isObjectOf({a: isString, b: isNumber}) again after the
\* caller gave it the key z
C15_Witness ==
    /\ cur = isObjectOf(<<E("a", Prim("isString")), E("b", Prim("isNumber"))>>)
    /\ napps = 2
    /\ nmuts = 1
    /\ HasOwn(heap[24], "z")
    /\ last = [x |-> Ref(24), r |-> "true"]
    /\ ~dirty
    /\ flipped = "no"

(***************************************************************************)
(* C16.  Partial-of key-driven law: isPartialOf(s) rejects a value that    *)
(* is no object, and applied to an object o it is true exactly when, for   *)
(* every key o itself has that is also a key of s, the inspector at that   *)
(* key accepts o[key].  Keys only s has are not checked, keys of o that s  *)
(* lacks have no influence whatever their name or value, and {} passes     *)
(* for every s.                                                            *)
(***************************************************************************)
\* the keys o itself has: index keys, then own properties
OwnKeys(h, o) ==
    IF ~IsRef(o) THEN {}
    ELSE {IndexKeys(h[o.n])[j] : j \in 1..Len(IndexKeys(h[o.n]))}
            \cup ({h[o.n].props[j].k : j \in 1..Len(h[o.n].props)} \ {IterKey})

C16_PartialOfKeyDriven ==
    (cur \in {isPartialOf(type) : type \in Shapes} /\ last.r # "none" /\ ~dirty) =>
        last.r = B(/\ last.x # Null /\ last.x.t = "object"
                   /\ \A j \in 1..Len(cur.shape) :
                        cur.shape[j].k \in OwnKeys(heap, last.x) =>
                            Accepts(cur.shape[j].i, Get(heap, last.x, cur.shape[j].k)))

(***************************************************************************)
(* C17.  Union and intersection identities: isAnyOf(isA) and isAllOf(isA)  *)
(* return on every value what isA returns on it (a boolean or the failure  *)
(* of isA); isAnyOf() rejects every value and isAllOf() accepts every      *)
(* value.                                                                  *)
(***************************************************************************)
C17_UnionIntersectionIdentities ==
    [][ (Applied /\ cur.op \in {"isAnyOf", "isAllOf"}) =>
            /\ (Len(cur.args) = 1 => last'.r = Eval(cur.args[1], last'.x, State, 1).r)
            /\ (Len(cur.args) = 0 => last'.r = B(cur.op = "isAllOf"))
      ]_vars

\* isAllOf of the one lazy inspector accepted "a", as the lazy inspector does
C17_Witness ==
    /\ cur = isAllOf(<<lazyInspector>>)
    /\ last = [x |-> Str("a"), r |-> "true"]
    /\ calls["sString"] >= 1

(***************************************************************************)
(* C18.  Short-circuit order: isAnyOf(i_1, ..., i_n) applies its           *)
(* inspectors in argument order up to the first one that accepts (or       *)
(* fails) and none after it; isAllOf applies them in argument order up to  *)
(* the first one that rejects (or fails) and none after it.  An inspector  *)
(* that would throw or recurse without end is not reached once an earlier  *)
(* one has decided.                                                        *)
(***************************************************************************)
\* what the lazy inspector over the supplier returns on x
ProbeOutcome(lazy, h, x) ==
    CASE lazy = "sNever" -> "false"
      [] lazy = "sAny" -> "true"
      [] lazy = "sString" -> B(IsStringValue(h, x))
      [] lazy = "sThrow" -> "Error"

\* the outcome that makes the combinator go on to its next inspector
GoesOn(op) == IF op = "isAnyOf" THEN "false" ELSE "true"

\* the k-th inspector is reached: every one before it let the combinator go on
ProbeReached(isT, h, x, k) ==
    \A j \in 1..(k - 1) : ProbeOutcome(isT.args[j].name, h, x) = GoesOn(isT.op)

C18_ShortCircuitOrder ==
    [][ /\ (Applied /\ cur \in {ProbeAny, ProbeAll}) =>
                LET x == last'.x
                    n == Len(cur.args)
                    deciders == {k \in 1..n :
                                    /\ ProbeReached(cur, heap, x, k)
                                    /\ ProbeOutcome(cur.args[k].name, heap, x) # GoesOn(cur.op)}
                IN  /\ \A k \in 1..n :
                            calls'[cur.args[k].name] = calls[cur.args[k].name]
                                + (IF ProbeReached(cur, heap, x, k) THEN 1 ELSE 0)
                    /\ \A k \in deciders :
                            last'.r = ProbeOutcome(cur.args[k].name, heap, x)
                    /\ (deciders = {} => last'.r = GoesOn(cur.op))
        /\ (Applied /\ cur = ProbeRecursive /\ IsStringValue(heap, last'.x)) =>
                last'.r = "true" /\ calls'["sOuroboros"] = calls["sOuroboros"]
      ]_vars

\* the union accepted "a" at its second inspector and left the throwing third
\* and the fourth alone
C18_Witness ==
    /\ cur = ProbeAny
    /\ napps = 1
    /\ last = [x |-> Str("a"), r |-> "true"]
    /\ calls["sNever"] = 1 /\ calls["sString"] = 1
    /\ calls["sThrow"] = 0 /\ calls["sAny"] = 0

(***************************************************************************)
(* C19.  isOptional(isT) applied to v is true when v is undefined and      *)
(* otherwise returns what isT returns on v; isNullable(isT) is true when v *)
(* is null and otherwise returns what isT returns on v.  The two are not   *)
(* interchangeable: isOptional(isT)(null) is isT(null) and                 *)
(* isNullable(isT)(undefined) is isT(undefined).                           *)
(***************************************************************************)
C19_OptionalNullable ==
    [][ /\ (Applied /\ cur.op = "isOptional") =>
                last'.r = IF last'.x = Undefined THEN "true"
                          ELSE Eval(cur.args[1], last'.x, State, 1).r
        /\ (Applied /\ cur.op = "isNullable") =>
                last'.r = IF last'.x = Null THEN "true"
                          ELSE Eval(cur.args[1], last'.x, State, 1).r
      ]_vars

\* isOptional(isString) rejected null
C19_Witness ==
    /\ cur = isOptional(Prim("isString"))
    /\ last = [x |-> Null, r |-> "false"]

(***************************************************************************)
(* C20.  isRefined(isT, p_1, ..., p_m) applied to v returns what isT       *)
(* returns unless isT accepts, and then is true exactly when every         *)
(* predicate returns true on v.  No predicate is invoked when isT does not *)
(* accept; the predicates are invoked in argument order, one time each,    *)
(* up to the first that returns false and none after it.  With no          *)
(* predicate, isRefined(isT) returns what isT returns.                     *)
(***************************************************************************)
C20_Refined ==
    [][ (Applied /\ cur \in RefinedCatalog) =>
            LET x == last'.x
                base == Eval(cur.args[1], x, State, 1).r
                reached(j) == base = "true" /\ \A l \in 1..(j - 1) : Predicate(cur.preds[l], x)
            IN  /\ last'.r = IF base # "true" THEN base
                              ELSE B(\A j \in 1..Len(cur.preds) : Predicate(cur.preds[j], x))
                /\ \A j \in 1..Len(cur.preds) :
                        calls'[cur.preds[j]] = calls[cur.preds[j]] + (IF reached(j) THEN 1 ELSE 0)
                /\ \A p \in PredicateNames :
                        (~\E j \in 1..Len(cur.preds) : cur.preds[j] = p) => calls'[p] = calls[p]
      ]_vars

\* -1 passed isNumber and the first predicate, failed the second, and the third
\* was not invoked
C20_Witness ==
    /\ cur = isRefined(Prim("isNumber"), <<"always", "positive", "never">>)
    /\ napps = 1
    /\ last = [x |-> Num(-1), r |-> "false"]
    /\ calls["always"] = 1 /\ calls["positive"] = 1 /\ calls["never"] = 0

(***************************************************************************)
(* C21: isUInt32 and the unsigned 32-bit range.                            *)
(***************************************************************************)
\* x is an integer-valued number with 0 <= x <= 4294967295, read off the two
\* 16-bit limbs of x
InUInt32Range(x) ==
    /\ x.t = "number"
    /\ x.k = "int"
    /\ x.n >= 0
    /\ x.n < Limb

\* C21: isUInt32(x) is true exactly when x is an integer-valued number with
\* 0 <= x <= 4294967295, and false for every other number and for every
\* value that is not a number.
C21_UInt32Range ==
    (cur = Prim("isUInt32") /\ last.r # "none") => last.r = B(InUInt32Range(last.x))

(***************************************************************************)
(* C22: isStruct / isRecord against isPlainObject.                         *)
(***************************************************************************)
\* the direct prototype of x is Object.prototype, respectively absent
HasRootPrototype(h, x) == IsRef(x) /\ h[x.n].cls = "Object"
HasNoPrototype(h, x) == IsRef(x) /\ h[x.n].cls = "NullProto"

\* C22: isStruct and isRecord accept exactly the non-null objects whose
\* direct prototype is Object.prototype or absent, isPlainObject accepts
\* exactly those whose prototype is Object.prototype; so what isPlainObject
\* accepts isStruct accepts, and what isStruct accepts and isPlainObject
\* rejects are exactly the objects without a prototype.
C22_StructVersusPlainObject ==
    last.r # "none" =>
        /\ cur \in {Prim("isStruct"), Prim("isRecord")} =>
                last.r = B(HasRootPrototype(heap, last.x) \/ HasNoPrototype(heap, last.x))
        /\ cur = Prim("isPlainObject") => last.r = B(HasRootPrototype(heap, last.x))
        /\ isPlainObject(heap, last.x) => isStruct(heap, last.x)
        /\ (isStruct(heap, last.x) /\ ~isPlainObject(heap, last.x))
                <=> HasNoPrototype(heap, last.x)

(***************************************************************************)
(* C23: isInstance is the complement of isStruct among the objects.        *)
(***************************************************************************)
IsObjectValue(x) == x.t = "object" /\ x # Null

\* C23: isInstance accepts exactly the non-null objects that isStruct
\* rejects; every object satisfies exactly one of isStruct and isInstance,
\* and a value that is no object satisfies neither.
C23_InstancePartition ==
    last.r # "none" =>
        /\ cur = Prim("isInstance") =>
                last.r = B(IsObjectValue(last.x)
                            /\ ~(HasRootPrototype(heap, last.x) \/ HasNoPrototype(heap, last.x)))
        /\ IsObjectValue(last.x) => (isStruct(heap, last.x) <=> ~isInstance(heap, last.x))
        /\ ~IsObjectValue(last.x) => (~isStruct(heap, last.x) /\ ~isInstance(heap, last.x))

\* isInstance has accepted a class instance
C23_Witness ==
    /\ cur = Prim("isInstance")
    /\ last = [x |-> Ref(18), r |-> "true"]
    /\ ~isStruct(heap, Ref(18))

(***************************************************************************)
(* C24: isArrayLike.                                                       *)
(***************************************************************************)
\* x.length, for a value that has properties
LengthOf(h, x) == Get(h, x, "length")
IntegerValued(v) == v.t = "number" /\ v.k \notin {"nan", "inf", "ninf", "frac"}

InByteRange(x) ==
    /\ x.k \in {"int", "frac"}
    /\ x.n = 0
    /\ x.m >= 0
    /\ IF x.k = "int" THEN x.m <= 255 ELSE x.m < 255

\* min <= x <= max for the two ranges the session builds
InRangeOf(vals, x) ==
    IF vals = <<Num(0), Num(255)>> THEN InByteRange(x) ELSE FALSE

\* C30: what isUInt8 accepts isUInt32 accepts, what isUInt32 accepts isInt
\* accepts, what isInt accepts isNumber accepts; isUInt8 accepts exactly the
\* integers from 0 to 255; isNumberBetween(min, max) accepts exactly the
\* numbers x with min <= x <= max, both ends included, and nothing when
\* min > max.
C30_NumericChain ==
    last.r # "none" =>
        /\ isUInt8(last.x) => isUInt32(heap, last.x) = "true"
        /\ isUInt32(heap, last.x) = "true" => isInt(last.x)
        /\ isInt(last.x) => isNumber(last.x)
        /\ cur = Prim("isUInt8") =>
                last.r = B(last.x.t = "number" /\ last.x.k = "int" /\ InByteRange(last.x))
        /\ cur.op = "isNumberBetween" =>
                last.r = B(last.x.t = "number" /\ InRangeOf(cur.vals, last.x))

\* isUInt8 has accepted 255
C30_Witness ==
    /\ cur = Prim("isUInt8")
    /\ last = [x |-> Num(255), r |-> "true"]
    /\ isUInt32(heap, Num(255)) = "true"

(***************************************************************************)
(* C28: what isPartialOf calls.                                            *)
(***************************************************************************)
\* C28: an application of isPartialOf(shape) calls as inspectors only the
\* entries of shape itself: no function that shape inherits from
\* Object.prototype is called.
C28_PartialOfCallsOwnEntriesOnly ==
    [][ (Applied /\ cur.op = "isPartialOf") =>
            calls'["Object.prototype"] = calls["Object.prototype"]
      ]_vars

(***************************************************************************)
(* C29: isStringMatching between calls.                                    *)
(***************************************************************************)
\* what pattern.test(s) returns for a pattern nobody has used yet
FreshTest(pattern, cs) == RegExpTest(Pattern(pattern), 0, cs).ok

\* C29: an inspector made by isStringMatching keeps nothing between calls:
\* whatever the pattern's flags and whatever it was applied to before, its
\* result on a string s is the boolean the pattern gives on s when first
\* used.
C29_StringMatchingStateless ==
    (cur.op = "isStringMatching" /\ last.r # "none" /\ IsStringValue(heap, last.x)) =>
        last.r = B(FreshTest(cur.name, StringText(heap, last.x)))

(***************************************************************************)
(* C25: isMapOf.                                                           *)
(***************************************************************************)
\* v satisfies isT, for the inspectors handed to isMapOf and isRecordOf
SatisfiesArg(isT, h, v) ==
    CASE isT = isAny -> TRUE
      [] isT = Prim("isString") -> IsStringValue(h, v)
      [] isT = Prim("isNumber") -> v.t = "number"
      [] OTHER -> FALSE

IsMapValue(h, x) == IsRef(x) /\ h[x.n].cls = "Map"
KeysSatisfy(isK, h, x) ==
    \A j \in 1..Len(h[x.n].elems) : j % 2 = 1 => SatisfiesArg(isK, h, h[x.n].elems[j])
ValuesSatisfy(isV, h, x) ==
    \A j \in 1..Len(h[x.n].elems) : j % 2 = 0 => SatisfiesArg(isV, h, h[x.n].elems[j])

OwnEntries(h, x) == SelectSeq(h[x.n].props, LAMBDA p : p.k # IterKey)

\* C26: on the data as it is at the application, isRecordOf(isK, isV)(x) is
\* true exactly when x is an object whose prototype is Object.prototype or
\* absent and, for every entry of x, the key (a string) satisfies isK and
\* the value satisfies isV, which is what isTupleOf(isK, isV) asks of the
\* pair; arrays, null and class instances are rejected, and {} is accepted
\* for every isK and isV.
C26_RecordOf ==
    (cur.op = "isRecordOf" /\ last.r # "none" /\ ~dirty) =>
        /\ last.r = B(/\ HasRootPrototype(heap, last.x) \/ HasNoPrototype(heap, last.x)
                      /\ \A j \in 1..Len(OwnEntries(heap, last.x)) :
                            /\ SatisfiesArg(cur.args[1], heap, Str(OwnEntries(heap, last.x)[j].k))
                            /\ SatisfiesArg(cur.args[2], heap, OwnEntries(heap, last.x)[j].v))
        /\ last.x \in {Null, Ref(1), Ref(18)} => last.r = "false"
        /\ (last.x = Ref(30) /\ heap[30].props = <<>>) => last.r = "true"

\* {} passed isRecordOf(isNever, isNever)
C26_Witness ==
    /\ cur = isRecordOf(isNever, isNever)
    /\ last = [x |-> Ref(30), r |-> "true"]
    /\ heap[30].props = <<>>

====
